---------------------------- MODULE Spec2Model ----------------------------
(***************************************************************************)
(* Model of fabric-yarn-merged-descs: the release registry (fabric.py),    *)
(* the description dataset (jardescs.py), the reconciler and the artifact  *)
(* fetcher (combined.py), the index projection (index.py) and the pipeline *)
(* (update.py).  Execution is single-threaded and sequential, so every     *)
(* entry point of the program is one atomic action; a fatal failure is an  *)
(* input of the action (which external call fails) and the action leaves   *)
(* behind whatever the code had already written when the exception fired.  *)
(*                                                                         *)
(* Python dicts are insertion-ordered: a dict is modelled as a sequence of *)
(* [k |-> key, v |-> value] items.                                         *)
(***************************************************************************)
EXTENDS Integers, Sequences, FiniteSets, TLC

(***************************************************************************)
(* Bounds of the model.                                                    *)
(***************************************************************************)
MaxBuild == 2
MaxFeedLen == 2
MaxRuns == 2
MaxRefreshes == 3
MaxPipelineRuns == 3

(***************************************************************************)
(* datetime.min, the timestamp of the empty documents.                     *)
(***************************************************************************)
DATETIME_MIN == 0

(***************************************************************************)
(* Insertion-ordered dict helpers (Python built-in semantics).             *)
(***************************************************************************)
DictKeys(d) == [i \in 1..Len(d) |-> d[i].k]

DictHas(d, key) == \E i \in 1..Len(d) : d[i].k = key

DictGet(d, key) == d[CHOOSE i \in 1..Len(d) : d[i].k = key].v

\* d[key] = value: an existing key keeps its position, a new key goes last
DictSet(d, key, value) ==
    IF DictHas(d, key)
    THEN [i \in 1..Len(d) |-> IF d[i].k = key THEN [k |-> key, v |-> value] ELSE d[i]]
    ELSE Append(d, [k |-> key, v |-> value])

\* list.index(x): position of the first occurrence
ListIndex(s, x) == CHOOSE i \in 1..Len(s) : s[i] = x /\ \A j \in 1..(i-1) : s[j] # x

InList(s, x) == \E i \in 1..Len(s) : s[i] = x

\* util.sort_dict(d, key): the items re-inserted in ascending order of their
\* key, rank[i] being the key of item i; Python's sort is stable
sort_dict(d, rank) ==
    LET n == Len(d)
        pos(i) == Cardinality({j \in 1..n : rank[j] < rank[i] \/ (rank[j] = rank[i] /\ j < i)}) + 1
    IN  [p \in 1..n |-> d[CHOOSE i \in 1..n : pos(i) = p]]

\* All sequences over S of length at most n
SeqsUpTo(S, n) == UNION {[1..m -> S] : m \in 0..n}

(***************************************************************************)
(* fabric.py: the release registry.                                        *)
(***************************************************************************)
VersionFileIds == {"a", "b"}
Separator == "+build."
Separators == {Separator, "."}

\* One entry of the release feed; upstream names a build
\* <gameVersion><separator><build>
FeedEntry(vfid, sep, build) ==
    [gameVersion |-> vfid, separator |-> sep, build |-> build,
     version |-> <<vfid, sep, build>>]

FeedEntries ==
    {FeedEntry(vfid, sep, build) : vfid \in VersionFileIds, sep \in Separators, build \in 1..MaxBuild}

\* Any entries, in any order, several builds of one version included
AnyFeeds == SeqsUpTo(FeedEntries, MaxFeedLen)

\* The feeds of the pipeline runs: some build of version "a", alone or with
\* the first build of version "b" listed after or before it
Feeds ==
    {<<FeedEntry("a", Separator, n)>> : n \in 1..MaxBuild}
    \cup {<<FeedEntry("a", Separator, n), FeedEntry("b", Separator, 1)>> : n \in 1..MaxBuild}
    \cup {<<FeedEntry("b", Separator, 1), FeedEntry("a", Separator, n)>> : n \in 1..MaxBuild}

\* FabricYarn.from_json: the four fields of one feed entry
FabricYarn_from_json(data) ==
    [version_file_id |-> data.gameVersion,
     separator       |-> data.separator,
     build           |-> data.build,
     fabric_name     |-> data.version]

\* FabricYarn.__eq__
FabricYarn_eq(x, y) ==
    /\ x.version_file_id = y.version_file_id
    /\ x.separator = y.separator
    /\ x.build = y.build
    /\ x.fabric_name = y.fabric_name

\* Fabric.empty()
Fabric_empty == [timestamp |-> DATETIME_MIN, yarn |-> <<>>, sorted_version_file_ids |-> <<>>]

\* the variant of the rule below that appends every id it is given
Fabric_remember_always(ids, vfid) == Append(ids, vfid)

\* "remember order": append a version_file_id seen for the first time
Fabric_remember(ids, vfid) == IF InList(ids, vfid) THEN ids ELSE Append(ids, vfid)

\* the always-replace variant of the rule below
Fabric_replaces_any(yarn, fy) ==
    \/ ~DictHas(yarn, fy.version_file_id)
    \/ ~FabricYarn_eq(fy, DictGet(yarn, fy.version_file_id))

\* "save yarn version": whether the feed entry replaces the stored one
Fabric_replaces(yarn, fy) ==
    \/ ~DictHas(yarn, fy.version_file_id)
    \/ /\ ~FabricYarn_eq(fy, DictGet(yarn, fy.version_file_id))
       /\ fy.build > DictGet(yarn, fy.version_file_id).build

\* the loop of Fabric.update over r.json()["mappings"], from entry i on
RECURSIVE Fabric_update_loop(_, _, _, _)
Fabric_update_loop(self, dirty, mappings, i) ==
    IF i > Len(mappings) THEN [fabric |-> self, dirty |-> dirty]
    ELSE LET fy   == FabricYarn_from_json(mappings[i])
             ids  == Fabric_remember(self.sorted_version_file_ids, fy.version_file_id)
             repl == Fabric_replaces(self.yarn, fy)
             next == [self EXCEPT !.sorted_version_file_ids = ids,
                                  !.yarn = IF repl THEN DictSet(@, fy.version_file_id, fy) ELSE @]
         IN  Fabric_update_loop(next, dirty \/ repl, mappings, i + 1)

\* the sort key of Fabric.update: position in the discovery-order list
Fabric_sort_key(self, item) == ListIndex(self.sorted_version_file_ids, item.k)

\* Fabric.update on a successful response; returns the object and dirty
Fabric_update(self, mappings) ==
    LET r == Fabric_update_loop(self, FALSE, mappings, 1)
        f == r.fabric
    IN  IF r.dirty
        THEN [fabric |-> [f EXCEPT !.yarn =
                             sort_dict(f.yarn, [i \in 1..Len(f.yarn) |-> Fabric_sort_key(f, f.yarn[i])])],
              dirty |-> TRUE]
        ELSE r

\* Fabric.save: stamps the document with the current time
Fabric_save(self, now) == [self EXCEPT !.timestamp = now]

(***************************************************************************)
(* jardescs.py: the description dataset (read-only to the core).           *)
(* A JarDescs is [timestamp, mappings], mappings a dict version_id ->      *)
(* dict jar_key -> JarDescsMapping.                                         *)
(***************************************************************************)
RECURSIVE Flatten(_)
Flatten(ss) == IF ss = <<>> THEN <<>> ELSE Head(ss) \o Flatten(Tail(ss))

DictValues(d) == [i \in 1..Len(d) |-> d[i].v]

\* JarDescs.all: every mapping, version by version
JarDescs_all(self) == Flatten([i \in 1..Len(self.mappings) |-> DictValues(self.mappings[i].v)])

JarDescs_matches(jar, version) == version = jar.version_id \/ version = jar.version_file_id

\* whether one of the get_* look-ups finds the token (else it raises)
JarDescs_resolves(self, version) ==
    \E i \in 1..Len(JarDescs_all(self)) : JarDescs_matches(JarDescs_all(self)[i], version)

\* the first mapping, in iteration order, that the token matches
JarDescs_first(self, version) ==
    LET all == JarDescs_all(self)
    IN  all[CHOOSE i \in 1..Len(all) :
                /\ JarDescs_matches(all[i], version)
                /\ \A j \in 1..(i-1) : ~JarDescs_matches(all[j], version)]

JarDescs_get_version_id(self, version) == JarDescs_first(self, version).version_id

JarDescs_get_version_release_time(self, version) == JarDescs_first(self, version).version_release_time

\* JarDescs.get_jars: raises unless the token resolves to a listed version
JarDescs_get_jars_ok(self, version) ==
    /\ JarDescs_resolves(self, version)
    /\ DictHas(self.mappings, JarDescs_get_version_id(self, version))

JarDescs_get_jars(self, version) ==
    DictValues(DictGet(self.mappings, JarDescs_get_version_id(self, version)))

\* JarDescs.pull_and_update: dirty iff the pull moved the timestamp
JarDescs_pull_and_update(self, latest) == self.timestamp # latest.timestamp

(***************************************************************************)
(* The files under mappings/: per version_id the cached compressed yarn    *)
(* (<version_id>-yarn.tiny.gz) and the decompressed yarn                    *)
(* (<version_id>-yarn.tiny); per (version_id, jar_key) the merged mapping   *)
(* file (<version_id>-<jar_key>.json).  A file is [kind, name, build, sha]: *)
(* kind "none" is a missing file; a yarn blob or text is identified by the  *)
(* fabric_name it was published under; a merged file records the yarn text  *)
(* and the description hash it was generated from, and the build of the     *)
(* CombinedYarn that was passed to the merge tool.                          *)
(***************************************************************************)
NoName == <<>>
NoFile == [kind |-> "none", name |-> NoName, build |-> 0, sha |-> ""]
Blob(name) == [kind |-> "gz", name |-> name, build |-> 0, sha |-> ""]
Junk == [kind |-> "junk", name |-> NoName, build |-> 0, sha |-> ""]
Text(name) == [kind |-> "tiny", name |-> name, build |-> 0, sha |-> ""]
Merged(name, build, sha) == [kind |-> "json", name |-> name, build |-> build, sha |-> sha]

Exists(file) == file.kind # "none"

\* hashlib.sha1(bytes).hexdigest(): injective on the contents of the model
Sha1(bytes) == <<"sha1", bytes.kind, bytes.name>>

\* gzip.open(BytesIO(content)).read(): raises on a payload that is no gzip
GunzipOk(content) == content.kind = "gz"
Gunzip(content) == Text(content.name)

\* the blob the artifact store publishes at tiny_gz_url
RemoteBlob(yarn) == Blob(yarn.fabric_name)

(***************************************************************************)
(* External calls fail by an oracle [at, kind]: the at-th external call of *)
(* the run (HTTP request or merge-tool invocation) goes wrong; at = 0 is a *)
(* run without fault.  kind "error" is a non-success response or exit      *)
(* status; kind "junk" is a success response with a wrong body (a sidecar  *)
(* that is not the blob's hash, a payload that is no gzip).                *)
(* A pass state st is [combined, files, calls, ok, error, trace, steps].   *)
(***************************************************************************)
NoFault == [at |-> 0, kind |-> "error"]

Fault(st, o, kind) == o.at = st.calls + 1 /\ o.kind = kind

Call(st, op, vid, jar, res) ==
    [st EXCEPT !.calls = @ + 1,
               !.trace = Append(@, [op |-> op, vid |-> vid, jar |-> jar, res |-> res,
                                    step |-> Len(st.steps)])]

\* an exception leaves the pass: nothing after it runs
Abort(st, error) == [st EXCEPT !.ok = FALSE, !.error = error]

(***************************************************************************)
(* combined.py: CombinedJarDesc, CombinedYarn and the artifact fetcher.    *)
(***************************************************************************)
\* CombinedJarDesc.from_jar_descs_mapping: a full-field copy
CombinedJarDesc_from_jar_descs_mapping(m) ==
    [version_id           |-> m.version_id,
     version_file_id      |-> m.version_file_id,
     version_release_time |-> m.version_release_time,
     jar_key              |-> m.jar_key,
     jar_sha1_meta        |-> m.jar_sha1_meta]

\* CombinedJarDesc.out_path, as the pair naming mappings/<version_id>-<jar_key>.json
out_path(jar) == <<jar.version_id, jar.jar_key>>

\* CombinedJarDesc.mappingio: the merge tool reads the description file of
\* the jar and the yarn text on disk and writes the merged file; a non-zero
\* exit status raises
CombinedJarDesc_mappingio(jar, yarn, st, o) ==
    IF Fault(st, o, "error") \/ Fault(st, o, "junk")
    THEN Abort(Call(st, "merge", yarn.version_id, jar.jar_key, "error"), "ExternalToolError")
    ELSE [Call(st, "merge", yarn.version_id, jar.jar_key, "ok") EXCEPT
             !.files.out[out_path(jar)] =
                 Merged(st.files.tiny[yarn.version_id].name, yarn.build, jar.jar_sha1_meta)]

\* CombinedYarn.from_fabric_yarn
CombinedYarn_from_fabric_yarn(fabric_yarn, version_id, version_release_time) ==
    [version_id           |-> version_id,
     version_file_id      |-> fabric_yarn.version_file_id,
     version_release_time |-> version_release_time,
     separator            |-> fabric_yarn.separator,
     build                |-> fabric_yarn.build,
     fabric_name          |-> fabric_yarn.fabric_name]

\* CombinedYarn.__eq__
CombinedYarn_eq(x, y) ==
    /\ x.version_id = y.version_id
    /\ x.version_file_id = y.version_file_id
    /\ x.version_release_time = y.version_release_time
    /\ x.separator = y.separator
    /\ x.build = y.build
    /\ x.fabric_name = y.fabric_name

\* the first half of CombinedYarn.download: with both files present, the
\* sidecar request and the comparison with the local blob's hash
CombinedYarn_download_check(yarn, st, o) ==
    LET vid == yarn.version_id
    IN  IF ~(Exists(st.files.gz[vid]) /\ Exists(st.files.tiny[vid]))
        THEN [st |-> st, cache_hit |-> FALSE]
        ELSE IF Fault(st, o, "error")
        THEN [st |-> Abort(Call(st, "sha1", vid, "", "error"), "RemoteFetchError"), cache_hit |-> FALSE]
        ELSE IF Fault(st, o, "junk")
        THEN [st |-> Call(st, "sha1", vid, "", "junk"), cache_hit |-> FALSE]
        ELSE [st |-> Call(st, "sha1", vid, "", "ok"),
              cache_hit |-> Sha1(RemoteBlob(yarn)) = Sha1(st.files.gz[vid])]

\* the second half: the full download, the write of the compressed payload
\* and then of its decompression
CombinedYarn_download_fetch(yarn, st, o) ==
    LET vid == yarn.version_id
    IN  IF Fault(st, o, "error")
        THEN Abort(Call(st, "get", vid, "", "error"), "RemoteFetchError")
        ELSE LET content == IF Fault(st, o, "junk") THEN Junk ELSE RemoteBlob(yarn)
                 got     == Call(st, "get", vid, "", IF GunzipOk(content) THEN "ok" ELSE "junk")
                 cached  == [got EXCEPT !.files.gz[vid] = content]
             IN  IF GunzipOk(content)
                 THEN [cached EXCEPT !.files.tiny[vid] = Gunzip(content)]
                 ELSE Abort(cached, "RemoteFetchError")

\* the variant of CombinedYarn.download below that never consults the cache
CombinedYarn_download_unchecked(yarn, st, o) == CombinedYarn_download_fetch(yarn, st, o)

\* the variant of CombinedYarn.download below that swallows a failure of
\* the fetch and lets the caller go on
CombinedYarn_download_swallow(yarn, st, o) ==
    [CombinedYarn_download_fetch(yarn, st, o) EXCEPT !.ok = TRUE, !.error = ""]

\* CombinedYarn.download
CombinedYarn_download(yarn, st, o) ==
    LET c == CombinedYarn_download_check(yarn, st, o)
    IN  IF ~c.st.ok \/ c.cache_hit THEN c.st ELSE CombinedYarn_download_fetch(yarn, c.st, o)

(***************************************************************************)
(* combined.py: CombinedCombined, one game version of the combined         *)
(* document: [version_id, version_file_id, version_release_time, yarn,     *)
(* jars], jars a dict jar_key -> CombinedJarDesc.                           *)
(***************************************************************************)
\* str.__lt__ on the jar keys of the model
JarKeyOrder == <<"client", "server">>
JarKeys == {JarKeyOrder[i] : i \in 1..Len(JarKeyOrder)}

\* the variant of the sort below that keeps the order of the jars
CombinedCombined_sort_jars_none(jars) == jars

\* sort_dict(self.jars): by jar_key
CombinedCombined_sort_jars(jars) ==
    sort_dict(jars, [i \in 1..Len(jars) |-> ListIndex(JarKeyOrder, jars[i].k)])

\* whether the candidate jar replaces the stored one
CombinedCombined_jar_dirty(jars, new_jar) ==
    ~DictHas(jars, new_jar.jar_key) \/ DictGet(jars, new_jar.jar_key) # new_jar

\* the variants of the rule below that regenerate every jar, or only a
\* jar that is dirty itself
CombinedCombined_regenerates_always(yarn_dirty, jar_dirty) == TRUE
CombinedCombined_regenerates_jar_only(yarn_dirty, jar_dirty) == jar_dirty

\* whether the jar's merged file is regenerated
CombinedCombined_regenerates(yarn_dirty, jar_dirty) == yarn_dirty \/ jar_dirty

\* one pass state with the stored version `key` replaced by `c`
WithVersion(st, key, c) == [st EXCEPT !.combined = DictSet(@, key, c)]

\* the step record of the version being processed
ThisStep(st) == st.steps[Len(st.steps)]
MarkStep(st, field, value) == [st EXCEPT !.steps[Len(st.steps)][field] = value]

\* the loop of CombinedCombined.update over jar_descs_mappings, from i on
RECURSIVE CombinedCombined_update_jars(_, _, _, _, _, _, _)
CombinedCombined_update_jars(key, mappings, i, yarn_dirty, dirty, st, o) ==
    IF i > Len(mappings) \/ ~st.ok THEN [st |-> st, dirty |-> dirty]
    ELSE LET self      == DictGet(st.combined, key)
             new_jar   == CombinedJarDesc_from_jar_descs_mapping(mappings[i])
             jar_dirty == CombinedCombined_jar_dirty(self.jars, new_jar)
             stored    == IF jar_dirty
                          THEN MarkStep(WithVersion(st, key,
                                   [self EXCEPT !.jars = DictSet(@, new_jar.jar_key, new_jar)]),
                                   "jar_dirty", ThisStep(st).jar_dirty \cup {new_jar.jar_key})
                          ELSE st
             merged    == IF CombinedCombined_regenerates(yarn_dirty, jar_dirty)
                          THEN CombinedJarDesc_mappingio(new_jar, DictGet(stored.combined, key).yarn, stored, o)
                          ELSE stored
         IN  CombinedCombined_update_jars(key, mappings, i + 1, yarn_dirty, dirty \/ jar_dirty, merged, o)

\* the end of CombinedCombined.update: a dirty version has its jars sorted
CombinedCombined_update_sort(key, r) ==
    IF r.st.ok /\ r.dirty
    THEN [st |-> WithVersion(r.st, key,
                    [DictGet(r.st.combined, key) EXCEPT !.jars = CombinedCombined_sort_jars(@)]),
          dirty |-> TRUE]
    ELSE r

\* CombinedCombined.update for the stored version `key`
CombinedCombined_update(key, fabric_yarn, jar_descs_mappings, st, o) ==
    LET self       == DictGet(st.combined, key)
        new_yarn   == CombinedYarn_from_fabric_yarn(fabric_yarn, self.version_id, self.version_release_time)
        yarn_dirty == ~CombinedYarn_eq(self.yarn, new_yarn)
        fetched    == IF yarn_dirty
                      THEN CombinedYarn_download(new_yarn,
                               MarkStep(WithVersion(st, key, [self EXCEPT !.yarn = new_yarn]),
                                        "yarn_dirty", TRUE), o)
                      ELSE st
    IN  CombinedCombined_update_sort(key,
            CombinedCombined_update_jars(key, jar_descs_mappings, 1, yarn_dirty, yarn_dirty, fetched, o))

\* CombinedCombined.mappingio: every stored jar, in iteration order
RECURSIVE CombinedCombined_mappingio(_, _, _, _)
CombinedCombined_mappingio(key, i, st, o) ==
    LET self == DictGet(st.combined, key)
    IN  IF i > Len(self.jars) \/ ~st.ok THEN st
        ELSE CombinedCombined_mappingio(key, i + 1,
                 CombinedJarDesc_mappingio(self.jars[i].v, self.yarn, st, o), o)

(***************************************************************************)
(* combined.py: Combined, the combined document [timestamp,                *)
(* jar_descs_timestamp, fabric_timestamp, combined], combined a dict       *)
(* version_id -> CombinedCombined.                                          *)
(***************************************************************************)
Combined_empty ==
    [timestamp |-> DATETIME_MIN, jar_descs_timestamp |-> DATETIME_MIN,
     fabric_timestamp |-> DATETIME_MIN, combined |-> <<>>]

\* Combined.save: stamps the document with the current time
Combined_save(self, now) == [self EXCEPT !.timestamp = now]

\* the variant of the short-circuit below that never holds
Combined_up_to_date_never(self, fabric, jar_descs) == FALSE

\* the short-circuit of Combined.update
Combined_up_to_date(self, fabric, jar_descs) ==
    /\ self.fabric_timestamp = fabric.timestamp
    /\ self.jar_descs_timestamp = jar_descs.timestamp

\* the dict comprehension {j.jar_key: CombinedJarDesc(j) for j in jars}
RECURSIVE Combined_jars_dict(_, _)
Combined_jars_dict(jars, i) ==
    IF i = 0 THEN <<>>
    ELSE DictSet(Combined_jars_dict(jars, i - 1), jars[i].jar_key,
                 CombinedJarDesc_from_jar_descs_mapping(jars[i]))

Step(vfid, version_id, new, stored, listed) ==
    [version_file_id |-> vfid, version_id |-> version_id, new |-> new,
     yarn_dirty |-> FALSE, jar_dirty |-> {}, stored |-> stored, listed |-> listed]

\* "init new": a version_id seen for the first time
Combined_init_new(version_id, version_release_time, item, jar_descs, st, o) ==
    LET combined_yarn == CombinedYarn_from_fabric_yarn(item.v, version_id, version_release_time)
        listed  == IF JarDescs_get_jars_ok(jar_descs, version_id)
                   THEN JarDescs_get_jars(jar_descs, version_id) ELSE <<>>
        begun   == [st EXCEPT !.steps = Append(@, Step(item.k, version_id, TRUE, <<>>,
                                                   [i \in 1..Len(listed) |-> listed[i].jar_key]))]
        fetched == CombinedYarn_download(combined_yarn, begun, o)
        created == WithVersion(fetched, version_id,
                       [version_id           |-> version_id,
                        version_file_id      |-> item.k,
                        version_release_time |-> version_release_time,
                        yarn                 |-> combined_yarn,
                        jars                 |-> Combined_jars_dict(listed, Len(listed))])
    IN  IF ~fetched.ok THEN fetched
        ELSE IF ~JarDescs_get_jars_ok(jar_descs, version_id) THEN Abort(fetched, "NotFound")
        ELSE CombinedCombined_mappingio(version_id, 1, created, o)

\* "update existing"
Combined_update_existing(version_id, item, jar_descs, st, o) ==
    LET listed == JarDescs_get_jars(jar_descs, version_id)
        begun  == [st EXCEPT !.steps = Append(@, Step(item.k, version_id, FALSE,
                                                  DictKeys(DictGet(st.combined, version_id).jars),
                                                  [i \in 1..Len(listed) |-> listed[i].jar_key]))]
    IN  IF ~JarDescs_get_jars_ok(jar_descs, version_id)
        THEN [st |-> Abort(st, "NotFound"), dirty |-> FALSE]
        ELSE CombinedCombined_update(version_id, item.v, listed, begun, o)

\* the variant of the iteration below that runs from the last item back
Combined_items_reversed(fabric) ==
    [i \in 1..Len(fabric.yarn) |-> fabric.yarn[Len(fabric.yarn) + 1 - i]]

\* fabric.yarn.items(): the registry entries in the dict's iteration order
Combined_items(fabric) == fabric.yarn

\* the loop of Combined.update over fabric.yarn.items(), from item i on
RECURSIVE Combined_update_loop(_, _, _, _, _, _)
Combined_update_loop(fabric, jar_descs, i, dirty, st, o) ==
    IF i > Len(Combined_items(fabric)) \/ ~st.ok THEN [st |-> st, dirty |-> dirty]
    ELSE LET item == Combined_items(fabric)[i]
         IN  IF ~JarDescs_resolves(jar_descs, item.k)
             THEN [st |-> Abort(st, "NotFound"), dirty |-> dirty]
             ELSE LET version_id == JarDescs_get_version_id(jar_descs, item.k)
                      version_release_time == JarDescs_get_version_release_time(jar_descs, version_id)
                  IN  IF ~DictHas(st.combined, version_id)
                      THEN Combined_update_loop(fabric, jar_descs, i + 1, TRUE,
                               Combined_init_new(version_id, version_release_time, item, jar_descs, st, o), o)
                      ELSE LET r == Combined_update_existing(version_id, item, jar_descs, st, o)
                           IN  Combined_update_loop(fabric, jar_descs, i + 1, dirty \/ r.dirty, r.st, o)

\* the sort key of Combined.update: the registry position of the version
Combined_sort_key(fabric, item) == ListIndex(fabric.sorted_version_file_ids, item.v.version_file_id)

\* the variant of the sort below that keeps the insertion order
Combined_sort_none(fabric, combined) == combined

Combined_sort(fabric, combined) ==
    sort_dict(combined, [i \in 1..Len(combined) |-> Combined_sort_key(fabric, combined[i])])

\* the source timestamps a completed pass stores
Combined_stamp(self, fabric, jar_descs) ==
    [self EXCEPT !.fabric_timestamp = fabric.timestamp,
                 !.jar_descs_timestamp = jar_descs.timestamp]

\* what a call of Combined.update leaves: the object after the call (self),
\* the files, dirty (the return value), ok (no exception), and the record of
\* the pass
Combined_result(doc, st, dirty, shortcut) ==
    [self |-> doc, files |-> st.files, dirty |-> dirty, ok |-> st.ok, error |-> st.error,
     shortcut |-> shortcut, calls |-> st.calls, trace |-> st.trace, steps |-> st.steps]

\* the end of Combined.update, after the loop left r: the sort when dirty
\* and the source timestamps
Combined_update_end(self, fabric, jar_descs, r) ==
    IF ~r.st.ok THEN Combined_result([self EXCEPT !.combined = r.st.combined], r.st, FALSE, FALSE)
    ELSE Combined_result(Combined_stamp([self EXCEPT !.combined =
                                            IF r.dirty THEN Combined_sort(fabric, r.st.combined)
                                            ELSE r.st.combined], fabric, jar_descs),
                         r.st, r.dirty, FALSE)

\* the pass state at the start of Combined.update
Combined_begin(self, files, calls) ==
    [combined |-> self.combined, files |-> files, calls |-> calls, ok |-> TRUE,
     error |-> "", trace |-> <<>>, steps |-> <<>>]

\* Combined.update
Combined_update(self, fabric, jar_descs, files, calls, o) ==
    IF Combined_up_to_date(self, fabric, jar_descs)
    THEN Combined_result(self, Combined_begin(self, files, calls), FALSE, TRUE)
    ELSE Combined_update_end(self, fabric, jar_descs,
             Combined_update_loop(fabric, jar_descs, 1, FALSE, Combined_begin(self, files, calls), o))

(***************************************************************************)
(* index.py: the index projection [timestamp, versions].                   *)
(***************************************************************************)
BASE_URL == "https://jackassmc.github.io/fabric-yarn-merged-descs"

IndexJar_from_combined_jar(combined_jar, yarn_build) ==
    [version_id           |-> combined_jar.version_id,
     version_file_id      |-> combined_jar.version_file_id,
     version_release_time |-> combined_jar.version_release_time,
     yarn_build           |-> yarn_build,
     jar_key              |-> combined_jar.jar_key,
     path                 |-> out_path(combined_jar),
     url                  |-> <<BASE_URL, out_path(combined_jar)>>]

IndexVersion_from_combined(combined) ==
    [version_id           |-> combined.version_id,
     version_file_id      |-> combined.version_file_id,
     version_release_time |-> combined.version_release_time,
     yarn_build           |-> combined.yarn.build,
     jars                 |-> [i \in 1..Len(combined.jars) |->
                                  [k |-> combined.jars[i].k,
                                   v |-> IndexJar_from_combined_jar(combined.jars[i].v, combined.yarn.build)]]]

Index_empty == [timestamp |-> DATETIME_MIN, versions |-> <<>>]

\* the variant of the rebuild below that takes the timestamp and no version
Index_rebuild_stamp_only(combined_root) ==
    [timestamp |-> combined_root.timestamp, versions |-> <<>>]

\* the rebuild of Index.update: from the combined document alone
Index_rebuild(combined_root) ==
    [timestamp |-> combined_root.timestamp,
     versions  |-> [i \in 1..Len(combined_root.combined) |->
                       [k |-> combined_root.combined[i].k,
                        v |-> IndexVersion_from_combined(combined_root.combined[i].v)]]]

\* Index.update: the object after the call and dirty
Index_update(self, combined_root) ==
    IF self.timestamp = combined_root.timestamp
    THEN [index |-> self, dirty |-> FALSE]
    ELSE [index |-> Index_rebuild(combined_root), dirty |-> TRUE]

\* Index.new()
Index_new(combined_root) == Index_update(Index_empty, combined_root).index

(***************************************************************************)
(* The description datasets of the model: a base dataset, version "A"      *)
(* (file id "a") with a client and a server jar followed by version "b"    *)
(* (file id "b"), and every dataset one edit away from it.                 *)
(***************************************************************************)
MaxTime == 2
Shas == {"h1", "h2"}

JarDescsMapping(vid, vfid, time, key, sha) ==
    [version_id |-> vid, version_file_id |-> vfid, version_release_time |-> time,
     jar_key |-> key, jar_sha1_meta |-> sha]

\* one version of the dataset; jars is a sequence of <<jar_key, sha>>
DescsVersion(vid, vfid, time, jars) ==
    [k |-> vid,
     v |-> [i \in 1..Len(jars) |->
               [k |-> jars[i][1], v |-> JarDescsMapping(vid, vfid, time, jars[i][1], jars[i][2])]]]

BaseJars == <<(<<"client", "h1">>), (<<"server", "h1">>)>>
BaseFirst == DescsVersion("A", "a", 1, BaseJars)
SecondVersion == DescsVersion("b", "b", 1, <<(<<"client", "h1">>)>>)

\* the first version, edited: another client hash, a later release time,
\* the jars listed in another order, the server jar withdrawn, or listed
\* under an id that is also the file id of the other version
FirstVersions ==
    {BaseFirst}
    \cup {DescsVersion("A", "a", 1, <<(<<"client", sha>>), (<<"server", "h1">>)>>) : sha \in Shas}
    \cup {DescsVersion("A", "a", time, BaseJars) : time \in 1..MaxTime}
    \cup {DescsVersion("A", "a", 1, <<(<<"server", "h1">>), (<<"client", "h1">>)>>)}
    \cup {DescsVersion("A", "a", 1, <<(<<"client", "h1">>)>>)}
    \cup {DescsVersion("a", "b", 1, BaseJars)}

DescsContents ==
    {<<v, SecondVersion>> : v \in FirstVersions}
    \cup {<<SecondVersion, BaseFirst>>, <<BaseFirst>>}

\* a timestamp that none of `stored` equals: timestamps are only ever
\* compared for equality, so a new one is modelled by the least unused value
Fresh(stored) == CHOOSE t \in 1..(Cardinality(stored) + 1) :
                    t \notin stored /\ \A u \in 1..(t - 1) : u \in stored

\* the faults of a run whose external calls are `calls` when nothing goes
\* wrong (up to its fault a run is the run without fault): any call may end
\* in error, an HTTP request for a sidecar or a blob in a wrong body
Oracles(calls) ==
    {NoFault}
    \cup {[at |-> k, kind |-> "error"] : k \in 1..Len(calls)}
    \cup {[at |-> k, kind |-> "junk"] : k \in {i \in 1..Len(calls) : calls[i] \in {"sha1", "get"}}}

(***************************************************************************)
(* The state: the release feed as last fetched, the pulled dataset, the    *)
(* three persisted documents, the files under mappings/, the record of the *)
(* last execution and the number of executions so far.                     *)
(***************************************************************************)
VARIABLES feed, descs, fabricJson, combinedJson, indexJson, files, run, executions

vars == <<feed, descs, fabricJson, combinedJson, indexJson, files, run, executions>>

\* datetime.now(timezone.utc): later than, so different from, every
\* timestamp a document holds
Now == Fresh({fabricJson.timestamp, combinedJson.timestamp, combinedJson.fabric_timestamp,
              indexJson.timestamp})

\* what `git pull origin master` may leave in the submodule: nothing new, or
\* a dataset with a new timestamp
PullOutcomes(contents) ==
    {descs} \cup
    {[timestamp |-> Fresh({descs.timestamp, combinedJson.jar_descs_timestamp}), mappings |-> m] :
        m \in contents}

VersionIds == {"A", "a", "b"}

NoFiles ==
    [gz   |-> [v \in VersionIds |-> NoFile],
     tiny |-> [v \in VersionIds |-> NoFile],
     out  |-> [p \in VersionIds \X JarKeys |-> NoFile]]

\* the record of an execution that did nothing yet
Idle(kind) ==
    [kind |-> kind, pulled |-> FALSE, ok |-> TRUE, stage |-> "", error |-> "",
     fabric_dirty |-> FALSE, new_data |-> FALSE, reconciled |-> FALSE, shortcut |-> FALSE,
     dirty |-> FALSE, doc |-> Combined_empty, index_dirty |-> FALSE, index_writes |-> 0,
     trace |-> <<>>, steps |-> <<>>]

Init ==
    /\ feed = <<>>
    /\ descs = [timestamp |-> 1, mappings |-> <<BaseFirst, SecondVersion>>]
    /\ fabricJson = Fabric_empty
    /\ combinedJson = Combined_empty
    /\ indexJson = Index_empty
    /\ files = NoFiles
    /\ run = Idle("init")
    /\ executions = 0

\* the record of a reconcile pass, added to the record of the execution
WithPass(r, cu) ==
    [r EXCEPT !.reconciled = TRUE, !.shortcut = cu.shortcut, !.dirty = cu.dirty, !.doc = cu.self,
              !.ok = cu.ok, !.error = cu.error, !.stage = IF cu.ok THEN "" ELSE "reconcile",
              !.trace = cu.trace, !.steps = cu.steps]

\* the external calls of a reconcile pass, in order
CallsOf(r) == [i \in 1..Len(r.trace) |-> r.trace[i].op]

\* python fabric.py: refresh the registry and save it if dirty; `mappings`
\* is what the feed lists when it is fetched
fabric_main(o, mappings) ==
    LET fu == Fabric_update(fabricJson, mappings)
    IN  IF o.at = 1
        THEN [feed |-> feed, fabricJson |-> fabricJson,
              run |-> [Idle("fabric") EXCEPT !.ok = FALSE, !.stage = "registry",
                                             !.error = "RemoteFetchError"]]
        ELSE [feed       |-> mappings,
              fabricJson |-> IF fu.dirty THEN Fabric_save(fu.fabric, Now) ELSE fabricJson,
              run        |-> [Idle("fabric") EXCEPT !.fabric_dirty = fu.dirty]]

\* one more execution of an entry point, of at most max
Executed(max) == executions < max /\ executions' = executions + 1

FabricMainOn(feeds, max) ==
    /\ Executed(max)
    /\ \E o \in Oracles(<<"feed">>), mappings \in feeds : \E r \in {fabric_main(o, mappings)} :
        /\ feed' = r.feed
        /\ fabricJson' = r.fabricJson
        /\ run' = r.run
        /\ UNCHANGED <<descs, combinedJson, indexJson, files>>

FabricMain == FabricMainOn(Feeds, MaxRuns)

\* combined.py __main__ after Combined.update returned cu: save if dirty
combined_main_save(cu) ==
    [combinedJson |-> IF cu.ok /\ cu.dirty THEN Combined_save(cu.self, Now) ELSE combinedJson,
     files        |-> cu.files,
     run          |-> WithPass(Idle("combined"), cu)]

\* python combined.py: reconcile and save the combined document if dirty
combined_main(o) ==
    combined_main_save(Combined_update(combinedJson, fabricJson, descs, files, 0, o))

CombinedMain ==
    /\ Executed(MaxRuns)
    /\ \E r0 \in {combined_main(NoFault)} : \E o \in Oracles(CallsOf(r0.run)) :
           \E r \in {IF o = NoFault THEN r0 ELSE combined_main(o)} :
               /\ combinedJson' = r.combinedJson
               /\ files' = r.files
               /\ run' = r.run
               /\ UNCHANGED <<feed, descs, fabricJson, indexJson>>

\* python index.py, and every `import index`: Index.new().save()
IndexMain ==
    /\ Executed(MaxRuns)
    /\ indexJson' = Index_new(combinedJson)
    /\ run' = [Idle("index") EXCEPT !.index_writes = 1]
    /\ UNCHANGED <<feed, descs, fabricJson, combinedJson, files>>

\* update(), its last part: with new data the combined document is saved if
\* dirty and then the index refreshed and saved if dirty; `imported` is the
\* index document `import index` wrote, r0 the record of the run so far
update_index(r0, imported, fabric1, new_data, cu) ==
    LET com_saved == new_data /\ cu.ok /\ cu.dirty
        combined1 == IF com_saved
                     THEN Combined_save(cu.self, Fresh({fabric1.timestamp, combinedJson.timestamp,
                                                        combinedJson.fabric_timestamp, indexJson.timestamp}))
                     ELSE combinedJson
        iu        == Index_update(imported, combined1)
        idx_saved == com_saved /\ iu.dirty
    IN  [fabricJson   |-> fabric1,
         combinedJson |-> combined1,
         indexJson    |-> IF idx_saved THEN iu.index ELSE imported,
         files        |-> IF new_data THEN cu.files ELSE files,
         run          |-> IF new_data
                          THEN [WithPass(r0, cu) EXCEPT !.index_dirty = idx_saved,
                                                        !.index_writes = IF idx_saved THEN 2 ELSE 1]
                          ELSE r0]

\* update(), from the refresh of the registry on: the registry is saved if
\* dirty, new_data tells whether the reconcile runs; jd_dirty is what
\* pull_and_update returned and fu what Fabric.update returned
update_fabric(o, latest, jd_dirty, fu) ==
    LET fabric1  == IF fu.dirty THEN Fabric_save(fu.fabric, Now) ELSE fabricJson
        new_data == jd_dirty \/ fu.dirty
        r0       == [Idle("update") EXCEPT !.pulled = jd_dirty, !.fabric_dirty = fu.dirty,
                                          !.new_data = new_data, !.index_writes = 1]
    IN  update_index(r0, Index_new(combinedJson), fabric1, new_data,
                     Combined_update(combinedJson, fabric1, latest, files, 1, o))

\* python update.py: `import index` and then update(); `mappings` is what
\* the feed lists and `latest` the dataset the pull leaves in the submodule
update(o, mappings, latest) ==
    IF o.at = 1
    THEN [feed         |-> feed,
          descs        |-> latest,
          fabricJson   |-> fabricJson,
          combinedJson |-> combinedJson,
          indexJson    |-> Index_new(combinedJson),
          files        |-> files,
          run          |-> [Idle("update") EXCEPT
                               !.pulled = JarDescs_pull_and_update(descs, latest),
                               !.index_writes = 1, !.ok = FALSE, !.stage = "registry",
                               !.error = "RemoteFetchError"]]
    ELSE [feed |-> mappings, descs |-> latest] @@
         update_fabric(o, latest, JarDescs_pull_and_update(descs, latest),
                       Fabric_update(fabricJson, mappings))

UpdateMainOn(feeds, contents, max) ==
    /\ Executed(max)
    /\ \E mappings \in feeds, latest \in PullOutcomes(contents) :
           \E r0 \in {update(NoFault, mappings, latest)} :
           \E o \in Oracles(<<"feed">> \o CallsOf(r0.run)) :
           \E r \in {IF o = NoFault THEN r0 ELSE update(o, mappings, latest)} :
               /\ feed' = r.feed
               /\ descs' = r.descs
               /\ fabricJson' = r.fabricJson
               /\ combinedJson' = r.combinedJson
               /\ indexJson' = r.indexJson
               /\ files' = r.files
               /\ run' = r.run

UpdateMain == UpdateMainOn(Feeds, DescsContents, MaxRuns)

\* one execution of one of the entry points
Next == FabricMain \/ CombinedMain \/ IndexMain \/ UpdateMain

Spec == Init /\ [][Next]_vars

(***************************************************************************)
(* Registry refreshes alone (python fabric.py), over any feeds: several    *)
(* builds of one version, in any order, under either separator.            *)
(***************************************************************************)
RegistryNext == FabricMainOn(AnyFeeds, MaxRefreshes)

SpecRegistry == Init /\ [][RegistryNext]_vars

(***************************************************************************)
(* Pipeline runs alone (python update.py), one more of them than in Spec,  *)
(* over the builds of version "a" and the datasets that list its server    *)
(* jar or not.                                                              *)
(***************************************************************************)
PipelineFeeds == {<<FeedEntry("a", Separator, n)>> : n \in 1..MaxBuild}

PipelineContents ==
    {<<BaseFirst, SecondVersion>>,
     <<DescsVersion("A", "a", 1, <<(<<"client", "h1">>)>>), SecondVersion>>}

PipelineNext == UpdateMainOn(PipelineFeeds, PipelineContents, MaxPipelineRuns)

SpecPipeline == Init /\ [][PipelineNext]_vars

(***************************************************************************)
(* The properties.  A pipeline run is one execution of update.py; a        *)
(* reconcile pass is one call of Combined.update, made by update.py or by  *)
(* combined.py.  An action property relates the state before an execution  *)
(* (unprimed) to the state after it (primed).                              *)
(***************************************************************************)
\* the failures the oracle injects into a pass: an HTTP request or the
\* merge tool going wrong
InjectedErrors == {"RemoteFetchError", "ExternalToolError"}

\* C1, as claimed: a pipeline run that ends in a fatal failure, at whichever
\* stage, leaves the registry, the combined and the index document as they
\* were when it started.
C1_FailedRunKeepsDocuments ==
    [][(run'.kind = "update" /\ ~run'.ok)
           => /\ fabricJson' = fabricJson
              /\ combinedJson' = combinedJson
              /\ indexJson' = indexJson]_vars

\* the CombinedVersion the dataset resolves the registry entry to is stored
\* and carries the entry's build
Completed(document, dataset, item) ==
    /\ JarDescs_resolves(dataset, item.k)
    /\ DictHas(document.combined, JarDescs_get_version_id(dataset, item.k))
    /\ DictGet(document.combined, JarDescs_get_version_id(dataset, item.k)).yarn.build = item.v.build

\* C2, as claimed: after a pipeline run aborted by a failure inside reconcile
\* (artifact fetch or merge tool), a following pipeline run over the same
\* feed and the same dataset in which nothing fails ends with a stored
\* CombinedVersion, at the registry's build, for every version of the
\* registry.
C2_RerunCompletesFailedRun ==
    [][(/\ run.kind = "update" /\ ~run.ok /\ run.stage = "reconcile"
        /\ run.error \in InjectedErrors
        /\ run'.kind = "update" /\ run'.ok
        /\ feed' = feed /\ descs' = descs)
           => \A i \in 1..Len(fabricJson'.yarn) :
                  Completed(combinedJson', descs', fabricJson'.yarn[i])]_vars

\* the document without the time of its save: the versions, yarns and jars
\* in their order, and the two source timestamps
Content(document) ==
    [combined            |-> document.combined,
     fabric_timestamp    |-> document.fabric_timestamp,
     jar_descs_timestamp |-> document.jar_descs_timestamp]

\* C3: when a reconcile pass completed and the next execution is a reconcile
\* pass that completes over the same registry and the same dataset, that
\* second pass reports dirty = false and leaves the combined document (the
\* versions, yarns and jars, their order, the two source timestamps) as the
\* first pass produced it, in memory and on disk.
C3_ReconcileIdempotent ==
    [][(/\ run.reconciled /\ run.ok
        /\ run'.reconciled /\ run'.ok
        /\ fabricJson' = fabricJson /\ descs' = descs)
           => /\ ~run'.dirty
              /\ Content(run'.doc) = Content(run.doc)
              /\ combinedJson' = combinedJson]_vars

\* a second pass ran after a first one that stored versions
C3_Witness ==
    /\ executions = 2
    /\ run.kind = "combined" /\ run.reconciled /\ run.ok /\ ~run.dirty
    /\ Len(run.doc.combined) > 0
    /\ Content(run.doc) = Content(combinedJson)

\* the greatest of a non-empty set of numbers
Max(S) == CHOOSE n \in S : \A m \in S : m <= n

\* the builds a feed lists for a version_file_id
BuildsListed(mappings, vfid) ==
    {mappings[i].build : i \in {n \in 1..Len(mappings) : mappings[n].gameVersion = vfid}}

\* C4: over any sequence of registry refreshes with arbitrary feeds, the
\* stored build of a version_file_id never decreases, and a stored entry is
\* replaced only by a feed entry of different content and strictly greater
\* build: after a refresh the stored build is the greatest of the build
\* stored before and the builds the fetched feed lists.
C4_MonotonicBuild ==
    [][\A i \in 1..Len(fabricJson.yarn) :
          LET old == fabricJson.yarn[i].v
              new == DictGet(fabricJson'.yarn, old.version_file_id)
          IN  /\ DictHas(fabricJson'.yarn, old.version_file_id)
              /\ new.build >= old.build
              /\ new.build = Max({old.build} \cup BuildsListed(feed', old.version_file_id))
              /\ ~FabricYarn_eq(new, old)
                     => /\ new.build > old.build
                        /\ \E n \in 1..Len(feed') : new = FabricYarn_from_json(feed'[n])]_vars

\* a refresh whose feed lists, for a stored version_file_id, a lower build
\* and an entry of the stored build under another separator: both ignored
C4_Witness ==
    /\ run.kind = "fabric" /\ run.ok
    /\ \E i \in 1..Len(fabricJson.yarn), m, n \in 1..Len(feed) :
          LET stored == fabricJson.yarn[i].v
          IN  /\ feed[m].gameVersion = stored.version_file_id
              /\ feed[m].build < stored.build
              /\ feed[n].gameVersion = stored.version_file_id
              /\ feed[n].build = stored.build
              /\ feed[n].separator # stored.separator

\* position of each version's version_file_id in the registry's
\* discovery-order list never decreases along the iteration order
InRegistryOrder(combined, ids) ==
    /\ \A i \in 1..Len(combined) : InList(ids, combined[i].v.version_file_id)
    /\ \A i, j \in 1..Len(combined) :
          i < j => ListIndex(ids, combined[i].v.version_file_id)
                       <= ListIndex(ids, combined[j].v.version_file_id)

\* the version stored under key was created by this pass
NewInPass(r, key) == \E k \in 1..Len(r.steps) : r.steps[k].new /\ r.steps[k].version_id = key

\* C5: after a reconcile pass that reports dirty = true, the combined
\* document, as the pass leaves it and as it is saved, iterates in the order
\* of its versions' version_file_ids in the registry's discovery-order list.
C5_DirtyPassSortsByRegistry ==
    (run.reconciled /\ run.ok /\ run.dirty)
        => /\ InRegistryOrder(run.doc.combined, fabricJson.sorted_version_file_ids)
           /\ combinedJson.combined = run.doc.combined

\* a dirty pass created a version that iterates before a version stored by
\* an earlier pass
C5_Witness ==
    /\ run.reconciled /\ run.ok /\ run.dirty
    /\ \E p, q \in 1..Len(run.doc.combined) :
          /\ p < q
          /\ NewInPass(run, run.doc.combined[p].k)
          /\ ~NewInPass(run, run.doc.combined[q].k)

\* the external calls of the pass of r made while it processed its step k,
\* of the kinds ops; the merge-tool invocations among them for the jar j
CallsAt(r, k, ops) == {i \in 1..Len(r.trace) : r.trace[i].step = k /\ r.trace[i].op \in ops}
MergesAt(r, k, j) == {i \in CallsAt(r, k, {"merge"}) : r.trace[i].jar = j}

\* the pass of r processed the version of its step k only once
OncePerPass(r, k) ==
    \A m \in 1..Len(r.steps) : r.steps[m].version_id = r.steps[k].version_id => m = k

\* the description entry the dataset lists for the jar j of the version v
Listed(dataset, v, j) ==
    \E i \in 1..Len(JarDescs_get_jars(dataset, v)) : JarDescs_get_jars(dataset, v)[i].jar_key = j
ListedEntry(dataset, v, j) ==
    LET jars == JarDescs_get_jars(dataset, v)
    IN  jars[CHOOSE i \in 1..Len(jars) : jars[i].jar_key = j]

\* the entry listed for the jar differs from the CombinedJar stored for it,
\* or none is stored
EntryDiffers(document, dataset, v, j) ==
    /\ Listed(dataset, v, j)
    /\ \/ ~DictHas(DictGet(document.combined, v).jars, j)
       \/ DictGet(DictGet(document.combined, v).jars, j)
              # CombinedJarDesc_from_jar_descs_mapping(ListedEntry(dataset, v, j))

\* the registry entry of the step is the yarn stored for its version
YarnUnchanged(document, registry, s) ==
    CombinedYarn_eq(DictGet(document.combined, s.version_id).yarn,
                    CombinedYarn_from_fabric_yarn(
                        DictGet(registry.yarn, s.version_file_id),
                        DictGet(document.combined, s.version_id).version_id,
                        DictGet(document.combined, s.version_id).version_release_time))

\* the step k of the pass of r is about a version that document stores
ExistingStep(document, r, k) ==
    /\ r.reconciled
    /\ OncePerPass(r, k)
    /\ DictHas(document.combined, r.steps[k].version_id)

\* C6: for a stored version whose registry entry is the stored yarn, a pass
\* invokes the merge tool for the jars whose description entry differs from
\* the stored CombinedJar (once each, if the pass completes) and for no
\* other jar, and requests neither the sidecar nor the artifact of the
\* version.
C6_SelectiveRegeneration ==
    [][\A k \in 1..Len(run'.steps) :
          (ExistingStep(combinedJson, run', k) /\ YarnUnchanged(combinedJson, fabricJson', run'.steps[k]))
              => /\ CallsAt(run', k, {"sha1", "get"}) = {}
                 /\ \A j \in JarKeys :
                       IF EntryDiffers(combinedJson, descs', run'.steps[k].version_id, j)
                       THEN /\ Cardinality(MergesAt(run', k, j)) <= 1
                            /\ run'.ok => Cardinality(MergesAt(run', k, j)) = 1
                       ELSE MergesAt(run', k, j) = {}]_vars

\* a completed pass over a version stored with a client and a server jar
\* and an unchanged yarn, in which the client entry alone differed: the
\* merge tool ran for the client jar and not for the server jar
C6_Witness ==
    /\ run.reconciled /\ run.ok
    /\ \E k \in 1..Len(run.steps) :
          /\ OncePerPass(run, k)
          /\ ~run.steps[k].new /\ ~run.steps[k].yarn_dirty
          /\ run.steps[k].jar_dirty = {"client"}
          /\ InList(run.steps[k].stored, "server")
          /\ InList(run.steps[k].listed, "server")
          /\ Cardinality(MergesAt(run, k, "client")) = 1
          /\ MergesAt(run, k, "server") = {}
          /\ CallsAt(run, k, {"sha1", "get"}) = {}

\* no description entry of the version changed: the dataset lists for it
\* what it listed before the run, and every listed entry is the stored
\* CombinedJar
NoJarEntryChanged(document, before, dataset, v) ==
    /\ JarDescs_get_jars_ok(before, v)
    /\ JarDescs_get_jars(dataset, v) = JarDescs_get_jars(before, v)
    /\ \A j \in JarKeys : ~EntryDiffers(document, dataset, v, j)

Ensures(r, k) == r.reconciled /\ OncePerPass(r, k) /\ (r.steps[k].new \/ r.steps[k].yarn_dirty)

\* the artifact store answers a sidecar request of the step with the hash of
\* the blob it publishes (res "ok"), with another body ("junk") or with an
\* error status: the sidecar is intact when no request for it went wrong,
\* garbled when one was answered with another body
SidecarIntact(r, k) == \A i \in CallsAt(r, k, {"sha1"}) : r.trace[i].res = "ok"
SidecarGarbled(r, k) == \E i \in CallsAt(r, k, {"sha1"}) : r.trace[i].res = "junk"

\* both local files of the version exist
BothExist(fs, v) == Exists(fs.gz[v]) /\ Exists(fs.tiny[v])

\* the sidecar hash of the registry entry of the step equals the hash of the
\* local compressed file
HashesEqual(registry, fs, s) ==
    Sha1(RemoteBlob(DictGet(registry.yarn, s.version_file_id))) = Sha1(fs.gz[s.version_id])

\* C8: for one call of CombinedYarn.download: with both local files present
\* and the remote sidecar hash equal to the hash of the local compressed
\* file, no full download is issued and neither file is written; with a
\* local file missing (no sidecar request is made then), or with a sidecar
\* answer that differs from the local hash, exactly one full download is
\* issued.  A step that does not call it makes no request at all.
C8_CacheCorrectness ==
    [][\A k \in 1..Len(run'.steps) :
          LET s == run'.steps[k]
              v == s.version_id
              hit == /\ BothExist(files, v)
                     /\ SidecarIntact(run', k)
                     /\ HashesEqual(fabricJson', files, s)
              miss == \/ ~BothExist(files, v)
                      \/ SidecarGarbled(run', k)
                      \/ SidecarIntact(run', k) /\ ~HashesEqual(fabricJson', files, s)
          IN  /\ (run'.reconciled /\ OncePerPass(run', k) /\ ~Ensures(run', k))
                     => CallsAt(run', k, {"sha1", "get"}) = {}
              /\ Ensures(run', k)
                     => /\ hit => /\ CallsAt(run', k, {"get"}) = {}
                                  /\ files'.gz[v] = files.gz[v]
                                  /\ files'.tiny[v] = files.tiny[v]
                        /\ miss => Cardinality(CallsAt(run', k, {"get"})) = 1
                        /\ ~BothExist(files, v) => CallsAt(run', k, {"sha1"}) = {}
                        /\ Cardinality(CallsAt(run', k, {"sha1"})) <= 1]_vars

\* a pass called CombinedYarn.download for a version whose files an earlier,
\* aborted execution had left: the sidecar hash matched and no download
\* followed
C8_Witness ==
    /\ run.reconciled /\ run.ok
    /\ \E k \in 1..Len(run.steps) :
          /\ Ensures(run, k)
          /\ Cardinality(CallsAt(run, k, {"sha1"})) = 1 /\ SidecarIntact(run, k)
          /\ CallsAt(run, k, {"get"}) = {}
          /\ BothExist(files, run.steps[k].version_id)

\* C9, as claimed: in a pipeline run in which the timestamp of the combined
\* document equals the timestamp of the index document saved by an earlier
\* execution, the index is neither rebuilt nor rewritten; and an index that a
\* run rebuilds is computed from the combined document alone.
C9_CurrentIndexNotRewritten ==
    [][run'.kind = "update"
           => /\ (indexJson.timestamp # DATETIME_MIN /\ combinedJson'.timestamp = indexJson.timestamp)
                     => run'.index_writes = 0
              /\ run'.index_dirty => indexJson' = Index_rebuild(combinedJson')]_vars

\* the merged mapping file of the jar of the version exists and was
\* generated from the yarn build b and the description hash h
MergedFrom(fs, v, j, b, h) ==
    /\ Exists(fs.out[<<v, j>>])
    /\ fs.out[<<v, j>>].build = b
    /\ fs.out[<<v, j>>].sha = h

\* the document holds a CombinedJar of hash h for the jar of the version,
\* under a CombinedYarn of build b
HoldsJar(document, v, j, b, h) ==
    /\ DictHas(document.combined, v)
    /\ DictGet(document.combined, v).yarn.build = b
    /\ DictHas(DictGet(document.combined, v).jars, j)
    /\ DictGet(DictGet(document.combined, v).jars, j).jar_sha1_meta = h

\* C10, as claimed: between executions, after those that completed and
\* after those that a failure aborted, a merged mapping file generated from
\* yarn build b and description hash h exists for (version, jar) if and only
\* if the saved combined document holds a CombinedJar of hash h for it under
\* a CombinedYarn of build b.
C10_MergedFilesMatchDocument ==
    \A v \in VersionIds, j \in JarKeys, b \in 1..MaxBuild, h \in Shas :
        MergedFrom(files, v, j, b, h) <=> HoldsJar(combinedJson, v, j, b, h)

\* C11: a reconcile called while the registry's timestamp equals the stored
\* fabric_timestamp and the dataset's timestamp equals the stored
\* jar_descs_timestamp returns false without failing, makes no request and
\* no merge-tool invocation, and leaves every field of the document, the
\* saved document and every file as they were.
C11_ShortCircuitTouchesNothing ==
    [][(/\ run'.reconciled
        /\ combinedJson.fabric_timestamp = fabricJson'.timestamp
        /\ combinedJson.jar_descs_timestamp = descs'.timestamp)
           => /\ run'.ok /\ ~run'.dirty
              /\ run'.trace = <<>> /\ run'.steps = <<>>
              /\ run'.doc = combinedJson
              /\ combinedJson' = combinedJson
              /\ files' = files]_vars

\* a reconcile was called on a document that stores versions at the
\* timestamps of the registry and of the dataset, and did nothing
C11_Witness ==
    /\ run.kind = "combined" /\ run.reconciled /\ run.ok /\ ~run.dirty
    /\ run.trace = <<>>
    /\ Len(combinedJson.combined) > 0
    /\ combinedJson.fabric_timestamp = fabricJson.timestamp
    /\ combinedJson.jar_descs_timestamp = descs.timestamp
    /\ run.doc = combinedJson

\* the calls of the trace are grouped by step: no call of a step follows a
\* call of a later step, and every call is about the version of its step
TraceByStep(r) ==
    /\ \A i, j \in 1..Len(r.trace) : i < j => r.trace[i].step <= r.trace[j].step
    /\ \A i \in 1..Len(r.trace) :
          /\ r.trace[i].step \in 1..Len(r.steps)
          /\ r.trace[i].vid = r.steps[r.trace[i].step].version_id

\* C12: a reconcile pass that does not short-circuit processes the versions
\* in the order of the registry's discovery-order list: its k-th iteration
\* is about the k-th id of the list (all of them when the pass completes),
\* and every request and merge-tool invocation of an iteration is made
\* before the first of the next one; so versions new to the document are
\* created in list order, whatever the order of the dataset.
C12_ProcessesInRegistryOrder ==
    (run.reconciled /\ ~run.shortcut)
        => /\ Len(run.steps) <= Len(fabricJson.sorted_version_file_ids)
           /\ \A k \in 1..Len(run.steps) :
                 run.steps[k].version_file_id = fabricJson.sorted_version_file_ids[k]
           /\ run.ok => Len(run.steps) = Len(fabricJson.sorted_version_file_ids)
           /\ TraceByStep(run)

\* a completed pass over the order list [a, b] and an empty document created
\* the version of "a" and then the version of "b", each with its requests
\* and merges, while the dataset lists the data of "b" first
C12_Witness ==
    /\ run.reconciled /\ run.ok /\ ~run.shortcut
    /\ fabricJson.sorted_version_file_ids = <<"a", "b">>
    /\ descs.mappings[1].k = "b"
    /\ Len(run.steps) = 2
    /\ run.steps[1].new /\ run.steps[1].version_file_id = "a"
    /\ run.steps[2].new /\ run.steps[2].version_file_id = "b"
    /\ \A k \in 1..2 : CallsAt(run, k, {"get"}) # {} /\ CallsAt(run, k, {"merge"}) # {}
    /\ DictKeys(run.doc.combined) = <<"A", "b">>

\* the first Len(s) elements of t are s
IsPrefix(s, t) == Len(s) <= Len(t) /\ \A i \in 1..Len(s) : t[i] = s[i]

NoDuplicates(s) == \A i, j \in 1..Len(s) : s[i] = s[j] => i = j

Elements(s) == {s[i] : i \in 1..Len(s)}

\* C13: over any sequence of registry refreshes the discovery-order list
\* only grows at its end (the list before a refresh is a prefix of the list
\* after it), holds no version_file_id twice, holds every id of the fetched
\* feed, and its elements are exactly the keys of the entry map; after a
\* refresh that returns true the entry map iterates in the order of the
\* list.
C13_OrderListAppendOnly ==
    [][/\ IsPrefix(fabricJson.sorted_version_file_ids, fabricJson'.sorted_version_file_ids)
       /\ NoDuplicates(fabricJson'.sorted_version_file_ids)
       /\ Elements(fabricJson'.sorted_version_file_ids) = Elements(DictKeys(fabricJson'.yarn))
       /\ \A n \in 1..Len(feed') : InList(fabricJson'.sorted_version_file_ids, feed'[n].gameVersion)
       /\ run'.fabric_dirty => DictKeys(fabricJson'.yarn) = fabricJson'.sorted_version_file_ids]_vars

\* a refresh returned true on a feed that lists a new id before an id the
\* list already held: the new id went last, in the list and in the map
C13_Witness ==
    /\ run.kind = "fabric" /\ run.ok /\ run.fabric_dirty
    /\ executions >= 2
    /\ fabricJson.sorted_version_file_ids = <<"a", "b">>
    /\ DictKeys(fabricJson.yarn) = <<"a", "b">>
    /\ Len(feed) = 2 /\ feed[1].gameVersion = "b" /\ feed[2].gameVersion = "a"
    /\ DictGet(fabricJson.yarn, "b").build = feed[1].build

\* the requests CombinedYarn.download made in the step k of the pass of r
EnsureCalls(r, k) == CallsAt(r, k, {"sha1", "get"})

\* the download of the step k returned: it made a request, none of its
\* requests ended in an error status, and its last one was answered well (a
\* sidecar equal to the local hash, or a payload that decompresses)
FetchCompleted(r, k) ==
    /\ EnsureCalls(r, k) # {}
    /\ \A i \in EnsureCalls(r, k) : r.trace[i].res # "error"
    /\ r.trace[Max(EnsureCalls(r, k))].res = "ok"

\* C14: in a reconcile pass, for an iteration about a new version or about
\* a stored one whose yarn is dirty, every merge-tool invocation comes after
\* every request of that iteration's download, and the download had
\* returned; when the download failed no merge is invoked in the iteration,
\* which is the last of the pass.
C14_MergeAfterFetch ==
    run.reconciled
        => \A k \in 1..Len(run.steps) :
              (run.steps[k].new \/ run.steps[k].yarn_dirty)
                  => /\ \A i \in CallsAt(run, k, {"merge"}) :
                           /\ FetchCompleted(run, k)
                           /\ \A e \in EnsureCalls(run, k) : e < i
                     /\ ~FetchCompleted(run, k)
                           => /\ CallsAt(run, k, {"merge"}) = {}
                              /\ ~run.ok /\ k = Len(run.steps)

\* a pass found the yarn of a stored version dirty, downloaded the artifact
\* and then ran the merge tool for its two jars
C14_Witness ==
    /\ run.reconciled /\ run.ok
    /\ \E k \in 1..Len(run.steps) :
          /\ OncePerPass(run, k)
          /\ ~run.steps[k].new /\ run.steps[k].yarn_dirty
          /\ FetchCompleted(run, k)
          /\ CallsAt(run, k, {"get"}) # {}
          /\ Cardinality(CallsAt(run, k, {"merge"})) = 2
          /\ \A i \in CallsAt(run, k, {"merge"}) : \A e \in EnsureCalls(run, k) : e < i

\* the pass of r was aborted by a failing call of CombinedYarn.download: its
\* last external call is a sidecar or artifact request and the pass raised
FailedEnsure(r) ==
    /\ r.reconciled /\ ~r.ok /\ r.error = "RemoteFetchError"
    /\ Len(r.trace) > 0
    /\ r.trace[Len(r.trace)].op \in {"sha1", "get"}

\* no earlier iteration of the pass of r downloaded the artifact of the
\* version its last call is about
FirstEnsureOfVersion(r) ==
    \A i \in 1..Len(r.trace) :
        (r.trace[i].op = "get" /\ r.trace[i].vid = r.trace[Len(r.trace)].vid)
            => r.trace[i].step = r.trace[Len(r.trace)].step

\* C15, as claimed: when a call of CombinedYarn.download fails (the sidecar
\* request or the download ends in an error status, or the payload does not
\* decompress), the cached compressed file and the decompressed artifact of
\* the version are as they were before the call.
C15_FailedEnsureKeepsFiles ==
    [][(FailedEnsure(run') /\ FirstEnsureOfVersion(run'))
           => /\ files'.gz[run'.trace[Len(run'.trace)].vid] = files.gz[run'.trace[Len(run'.trace)].vid]
              /\ files'.tiny[run'.trace[Len(run'.trace)].vid] = files.tiny[run'.trace[Len(run'.trace)].vid]]_vars

\* the IndexVersion iv is the projection of the CombinedVersion cv: its
\* identity, the build of cv's yarn, and one row per CombinedJar of cv, in
\* the same order, each with the jar's identity and that build
ProjectsVersion(iv, cv) ==
    /\ iv.version_id = cv.version_id
    /\ iv.version_file_id = cv.version_file_id
    /\ iv.version_release_time = cv.version_release_time
    /\ iv.yarn_build = cv.yarn.build
    /\ DictKeys(iv.jars) = DictKeys(cv.jars)
    /\ \A j \in 1..Len(cv.jars) :
          /\ iv.jars[j].v.jar_key = cv.jars[j].v.jar_key
          /\ iv.jars[j].v.version_id = cv.jars[j].v.version_id
          /\ iv.jars[j].v.yarn_build = cv.yarn.build
          /\ iv.jars[j].v.path = out_path(cv.jars[j].v)

\* the index document is current with the combined document
IndexCurrent(index, root) ==
    /\ index.timestamp = root.timestamp
    /\ DictKeys(index.versions) = DictKeys(root.combined)
    /\ \A i \in 1..Len(root.combined) : ProjectsVersion(index.versions[i].v, root.combined[i].v)

\* C16: after a pipeline run that completes without failure the saved index
\* document is current with the saved combined document: the timestamps are
\* equal and the index holds one IndexVersion per CombinedVersion, in the
\* same order, with the version's yarn build and one row per CombinedJar.
C16_IndexCurrentAfterRun ==
    (run.kind = "update" /\ run.ok) => IndexCurrent(indexJson, combinedJson)

\* a second pipeline run saved the combined document with two versions, one
\* of them at build 2 with two jars, and refreshed the index from it
C16_Witness ==
    /\ run.kind = "update" /\ run.ok /\ run.dirty /\ run.index_dirty
    /\ executions = 2
    /\ Len(indexJson.versions) = 2
    /\ combinedJson.timestamp # DATETIME_MIN
    /\ \E i \in 1..Len(combinedJson.combined) :
          /\ combinedJson.combined[i].v.yarn.build = 2
          /\ Len(combinedJson.combined[i].v.jars) = 2
          /\ indexJson.versions[i].v.yarn_build = 2

\* the registry entry `item` is the only one the dataset resolves to its
\* version
ResolvesAlone(registry, dataset, item) ==
    \A n \in 1..Len(registry.yarn) :
        (/\ JarDescs_resolves(dataset, registry.yarn[n].k)
         /\ JarDescs_get_version_id(dataset, registry.yarn[n].k) = JarDescs_get_version_id(dataset, item.k))
            => registry.yarn[n].k = item.k

\* the CombinedVersion stored for the registry entry carries the yarn built
\* from the entry with the version_id and the release time the dataset
\* resolves now, and that release time as its own
YarnCurrent(document, dataset, item) ==
    LET version_id == JarDescs_get_version_id(dataset, item.k)
        release    == JarDescs_get_version_release_time(dataset, version_id)
    IN  /\ DictHas(document.combined, version_id)
        /\ CombinedYarn_eq(DictGet(document.combined, version_id).yarn,
                           CombinedYarn_from_fabric_yarn(item.v, version_id, release))
        /\ DictGet(document.combined, version_id).version_release_time = release

\* C17, as claimed: after a reconcile pass that completes and does not
\* short-circuit, the CombinedVersion of every registry entry (that alone
\* resolves to its version) holds a CombinedYarn equal, field by field, to
\* the candidate built from the current registry entry and the version_id
\* and release time the dataset resolves now.
C17_StoredYarnIsCandidate ==
    (run.reconciled /\ run.ok /\ ~run.shortcut)
        => \A i \in 1..Len(fabricJson.yarn) :
              ResolvesAlone(fabricJson, descs, fabricJson.yarn[i])
                  => YarnCurrent(run.doc, descs, fabricJson.yarn[i])

\* the jar keys iterate in ascending order
AscendingJarKeys(jars) ==
    \A i, j \in 1..Len(jars) :
        i < j => ListIndex(JarKeyOrder, jars[i].k) < ListIndex(JarKeyOrder, jars[j].k)

\* C18, as claimed: after a reconcile pass that completes, the jar map of
\* every CombinedVersion of the document, created in the pass or updated in
\* it, iterates in ascending jar_key order.
C18_JarsSortedAfterPass ==
    (run.reconciled /\ run.ok)
        => \A i \in 1..Len(run.doc.combined) : AscendingJarKeys(run.doc.combined[i].v.jars)

\* the iteration k of the pass of r found its stored version dirty
DirtyStep(r, k) == ~r.steps[k].new /\ (r.steps[k].yarn_dirty \/ r.steps[k].jar_dirty # {})

\* C18, amended: after a reconcile pass that completes, the jar map of every
\* stored version the pass found dirty (a changed yarn or a changed jar)
\* iterates in ascending jar_key order; a version the pass created and did
\* not update holds its jars in the order the dataset lists them.
C18_DirtyVersionsSorted ==
    (run.reconciled /\ run.ok)
        => \A k \in 1..Len(run.steps) :
              /\ DirtyStep(run, k)
                    => AscendingJarKeys(DictGet(run.doc.combined, run.steps[k].version_id).jars)
              /\ (run.steps[k].new /\ OncePerPass(run, k))
                    => DictKeys(DictGet(run.doc.combined, run.steps[k].version_id).jars)
                           = run.steps[k].listed

\* a pass found dirty a version stored with the server jar before the
\* client jar, and left it with the client jar first
C18_Witness ==
    /\ run.reconciled /\ run.ok
    /\ \E k \in 1..Len(run.steps) :
          /\ OncePerPass(run, k) /\ DirtyStep(run, k)
          /\ run.steps[k].stored = <<"server", "client">>
          /\ DictKeys(DictGet(run.doc.combined, run.steps[k].version_id).jars) = <<"client", "server">>

\* C19, as claimed: between executions, after whatever calls of
\* CombinedYarn.download succeeded or failed, a version whose cached
\* compressed file and decompressed artifact both exist has, as its
\* artifact, the decompression of its cached compressed file.
C19_ArtifactIsDecompressedCache ==
    \A v \in VersionIds :
        BothExist(files, v) => (GunzipOk(files.gz[v]) /\ files.tiny[v] = Gunzip(files.gz[v]))

\* what the loop of Combined.update computes over the saved documents and
\* the files when nothing fails and the short-circuit is left out: whether
\* the value comparisons find anything to change
FullPassDirty ==
    Combined_update_end(combinedJson, fabricJson, descs,
        Combined_update_loop(fabricJson, descs, 1, FALSE,
                             Combined_begin(combinedJson, files, 0), NoFault)).dirty

\* the saved combined document carries the timestamps of the saved registry
\* and of the dataset: the next reconcile short-circuits
ShortCircuits == Combined_up_to_date(combinedJson, fabricJson, descs)

\* C20, as claimed: between executions, completed or aborted, whenever the
\* saved combined document's fabric_timestamp and jar_descs_timestamp equal
\* the timestamps of the saved registry and of the dataset, a full reconcile
\* pass over the saved state would report dirty = false.
C20_ShortCircuitSkipsNoChange == ShortCircuits => ~FullPassDirty

=============================================================================
